---- MODULE Spec2Model ----
(***************************************************************************)
(* MH-Z19 CO2 sensor driver (src/src/mhz19.rs) over a byte-at-a-time      *)
(* non-blocking serial transport (embedded_hal Read<u8> + Write<u8>,       *)
(* driven through nb::block!), with a sensor on the far end of the wire    *)
(* that queues reply bytes (generalised from src/tests/common.rs).         *)
(*                                                                         *)
(* Sequences are 1-based: buffer[i] of the source is buffer[i + 1] here.   *)
(***************************************************************************)
EXTENDS Integers, Sequences, FiniteSets, TLC

VARIABLES
    buffer,     \* Mhz19.buffer: [u8; BUFFER_SIZE]
    output,     \* reply bytes queued in the transport, not yet read
    pc,         \* "idle" | "command" (write loop) | "response" (read loop)
    op,         \* the public call in progress or last returned
    arg,        \* its argument: .name an AutoCalibrationState, a Range, "raw" or "none"
    index,      \* position of the running loop (bytes written / bytes read)
    result,     \* "None" while running, else "Ok" | "Write" | "Read" | "Checksum"
    value,      \* the u16 of Ok(v) returned by co2, else -1
    tx,         \* history: bytes the transport accepted during this call
    rx,         \* history: bytes the transport delivered during this call
    reads,      \* history: serial.read() invocations during this call
    writeErrAt, \* history: frame index whose write failed, else -1
    readErrAt,  \* history: buffer index whose read failed, else -1
    checks,     \* history: checksum() evaluations during this call
    blocks,     \* history: WouldBlock results during this call (saturating)
    calls,      \* public calls made so far
    data,       \* argument of a direct checksum() call
    crc,        \* its result, -1 before the call
    serial,     \* which transport the driver owns (see RepliesOf, ReadOk)
    packet,     \* bytes a test pushed to the transport's output beforehand
    prev        \* history: result of the call before this one, else "None"

vars == <<buffer, output, pc, op, arg, index, result, value, tx, rx, reads,
          writeErrAt, readErrAt, checks, blocks, calls, data, crc, serial,
          packet, prev>>

(***************************************************************************)
(* Bounds of the model                                                     *)
(***************************************************************************)
MaxCalls == 2
MaxBlock == 1
ShortReply == 4
MaxLen == 8

(***************************************************************************)
(* Program constants                                                       *)
(***************************************************************************)
BUFFER_SIZE == 9
ReadConcentration == 134
CalibrateZeroPoint == 135
CalibrateSpanPoint == 136
AutoCalibration == 121
SetRange == 153
Commands == {ReadConcentration, CalibrateZeroPoint, CalibrateSpanPoint,
             AutoCalibration, SetRange}
U8 == 256

AutoCalibrationState == {"Enable", "Disable"}
Range == {"_1000", "_2000", "_3000", "_5000", "_10000"}

(***************************************************************************)
(* checksum: wrapping u8 sum of the slice, then 255 - sum (wrapping)       *)
(***************************************************************************)
\* Faulty variant: the sum saturates at 255 instead of wrapping
RECURSIVE ChecksumLoop_Saturating(_, _)
ChecksumLoop_Saturating(slice, acc) ==
    IF slice = <<>> THEN acc
    ELSE ChecksumLoop_Saturating(Tail(slice),
             IF acc + Head(slice) > 255 THEN 255 ELSE acc + Head(slice))

RECURSIVE ChecksumLoop(_, _)
ChecksumLoop(slice, acc) ==
    IF slice = <<>> THEN acc
    ELSE ChecksumLoop(Tail(slice), (acc + Head(slice)) % U8)

\* Faulty variant: two's complement (256 - sum) instead of 255 - sum
checksum_TwosComplement(slice) == (U8 + U8 - ChecksumLoop(slice, 0)) % U8

checksum(slice) == (255 + U8 - ChecksumLoop(slice, 0)) % U8

(***************************************************************************)
(* command: the frame placed in the buffer before the write loop           *)
(***************************************************************************)
\* Faulty variant: the checksum leaves out the start byte
CommandFrame_SumAfterStart(cmd, payload) ==
    LET body == <<255, 1, cmd, payload[1], payload[2], payload[3],
                  payload[4], payload[5]>>
    IN  Append(body, checksum(Tail(body)))

\* Faulty variant: the checksum byte is left at its initial 0x00
CommandFrame_ZeroChecksum(cmd, payload) ==
    <<255, 1, cmd, payload[1], payload[2], payload[3], payload[4],
      payload[5], 0>>

CommandFrame(cmd, payload) ==
    LET body == <<255, 1, cmd, payload[1], payload[2], payload[3],
                  payload[4], payload[5]>>
    IN  Append(body, checksum(body))

\* Faulty variant: the two states exchanged
StateByte_Swapped(state) == IF state = "Enable" THEN 0 ELSE 160

StateByte(state) == IF state = "Enable" THEN 160 ELSE 0

\* Faulty variant: the 16-bit value low byte first
RangeData_LittleEndian(range) ==
    CASE range = "_1000"  -> <<0, 0, 0, 232, 3>>
      [] range = "_2000"  -> <<0, 0, 0, 208, 7>>
      [] range = "_3000"  -> <<0, 0, 0, 184, 11>>
      [] range = "_5000"  -> <<0, 0, 0, 136, 19>>
      [] range = "_10000" -> <<0, 0, 0, 16, 39>>

RangeData(range) ==
    CASE range = "_1000"  -> <<0, 0, 0, 3, 232>>
      [] range = "_2000"  -> <<0, 0, 0, 7, 208>>
      [] range = "_3000"  -> <<0, 0, 0, 11, 184>>
      [] range = "_5000"  -> <<0, 0, 0, 19, 136>>
      [] range = "_10000" -> <<0, 0, 0, 39, 16>>

\* Faulty variants: low byte first; payload bytes 3 and 4 instead of 2 and 3
Co2Value_LowFirst(buf) == ((buf[4] * 256) % 65536) + buf[3]

Co2Value_Payload(buf) == ((buf[4] * 256) % 65536) + buf[5]

\* co2: ((buffer[2] as u16) << 8) | (buffer[3] as u16)
Co2Value(buf) == ((buf[3] * 256) % 65536) + buf[4]

\* Faulty variant: the checksum taken over all 9 bytes
ResponseVerdict_WholeBuffer(buf) ==
    IF checksum(buf) # buf[BUFFER_SIZE] THEN "Checksum" ELSE "Ok"

\* Faulty variant: the comparison inverted
ResponseVerdict_Inverted(buf) ==
    IF checksum(SubSeq(buf, 1, BUFFER_SIZE - 1)) = buf[BUFFER_SIZE]
    THEN "Checksum" ELSE "Ok"

\* Variant that also rejects a frame whose start byte is not 0xFF
ResponseVerdict_ChecksStart(buf) ==
    IF \/ checksum(SubSeq(buf, 1, BUFFER_SIZE - 1)) # buf[BUFFER_SIZE]
       \/ buf[1] # 255
    THEN "Checksum" ELSE "Ok"

\* response: the checksum comparison once BUFFER_SIZE bytes are in the buffer
ResponseVerdict(buf) ==
    IF checksum(SubSeq(buf, 1, BUFFER_SIZE - 1)) # buf[BUFFER_SIZE]
    THEN "Checksum" ELSE "Ok"

\* Which public operations go on to response() after command() returned Ok
ReadsResponse(o) == o = "co2"

(***************************************************************************)
(* The sensor end of the wire: once the transport has accepted a whole     *)
(* frame the sensor queues nothing, a truncated reply or a 9-byte reply,   *)
(* with a good or a damaged checksum byte.                                 *)
(***************************************************************************)
ReplyStart == {255}
ReplySensor == {1}
ReplyByte2 == {4}
ReplyByte3 == {4, 176}
ReplyByte4 == {0, 176}

ReplyBodies ==
    { <<b0, b1, b2, b3, b4, 0, 0, 0>> :
        b0 \in ReplyStart, b1 \in ReplySensor, b2 \in ReplyByte2,
        b3 \in ReplyByte3, b4 \in ReplyByte4 }

ReplyFrames ==
    UNION { { Append(b, checksum(b)), Append(b, (checksum(b) + 1) % U8) } :
            b \in ReplyBodies }

SensorReplies ==
    { SubSeq(f, 1, n) : f \in ReplyFrames, n \in {0, ShortReply, BUFFER_SIZE} }

\* Replies with a good checksum only
ValidReplies ==
    { f \in ReplyFrames : f[BUFFER_SIZE] = checksum(SubSeq(f, 1, BUFFER_SIZE - 1)) }

\* The reply process() queues for ReadConcentration, whole, and the same
\* frame with a damaged checksum; or no reply at all
LineReplies ==
    {<<>>} \cup { f \in ReplyFrames : f[4] = 176 /\ f[5] = 0 }

\* What the far end queues once a whole frame was accepted, by transport:
\*   "wire"   a serial line to a sensor that may answer anything or nothing
\*   "sensor" a sensor that answers each frame with one checksum-valid reply
\*   "line"   a sensor that sends the ReadConcentration reply, sound or
\*            damaged, or stays silent
\*   "fifo"   tests/common.rs DummySerial's queue (pop_front), filled by a test
\*   "lifo"   mod tests' DummySerial (heapless Vec, pop), filled by a test
RepliesOf(kind) ==
    CASE kind = "wire"   -> SensorReplies
      [] kind = "sensor" -> ValidReplies
      [] kind = "line"   -> LineReplies
      [] OTHER           -> {<<>>}

\* Faulty variant: read() of mod tests' DummySerial taking the first byte
NextByteAt_AlwaysFirst(kind, queue) == 1

\* Which queued byte read() hands over: Vec::pop takes the last one pushed
NextByteAt(kind, queue) == IF kind = "lifo" THEN Len(queue) ELSE 1

Min(a, b) == IF a < b THEN a ELSE b

\* The argument of the call in progress; cmd and data are set for a direct
\* command(cmd, data) call only
Arg(name, cmd, payload) == [name |-> name, cmd |-> cmd, data |-> payload]

(***************************************************************************)
(* Initial state: Mhz19::new; Init has nothing on the wire                 *)
(***************************************************************************)
DriverInit ==
    /\ buffer = [i \in 1..BUFFER_SIZE |-> 0]
    /\ pc = "idle"
    /\ op = "none"
    /\ arg = Arg("none", -1, <<>>)
    /\ index = 0
    /\ result = "None"
    /\ value = -1
    /\ tx = <<>>
    /\ rx = <<>>
    /\ reads = 0
    /\ writeErrAt = -1
    /\ readErrAt = -1
    /\ checks = 0
    /\ blocks = 0
    /\ calls = 0
    /\ prev = "None"

Init ==
    /\ DriverInit
    /\ data = <<>>
    /\ crc = -1
    /\ serial = "wire"
    /\ packet = <<>>
    /\ output = <<>>

(***************************************************************************)
(* Public operations: each starts with command(), which overwrites the     *)
(* buffer with the frame and enters the write loop.                        *)
(***************************************************************************)
\* Faulty variant: the checksum is taken before the buffer is overwritten,
\* over what the call before left in it
command_StaleChecksum(cmd, payload) ==
    /\ buffer' = [CommandFrame(cmd, payload) EXCEPT
                    ![BUFFER_SIZE] = checksum(SubSeq(buffer, 1, BUFFER_SIZE - 1))]
    /\ pc' = "command"
    /\ index' = 0
    /\ result' = "None"
    /\ value' = -1
    /\ tx' = <<>>
    /\ rx' = <<>>
    /\ reads' = 0
    /\ writeErrAt' = -1
    /\ readErrAt' = -1
    /\ checks' = 1
    /\ blocks' = 0
    /\ calls' = calls + 1
    /\ prev' = result
    /\ UNCHANGED <<output, data, crc, serial, packet>>

\* command(cmd, data) up to the write loop: the frame is built in the buffer
command(cmd, payload) ==
    /\ buffer' = CommandFrame(cmd, payload)
    /\ pc' = "command"
    /\ index' = 0
    /\ result' = "None"
    /\ value' = -1
    /\ tx' = <<>>
    /\ rx' = <<>>
    /\ reads' = 0
    /\ writeErrAt' = -1
    /\ readErrAt' = -1
    /\ checks' = 1
    /\ blocks' = 0
    /\ calls' = calls + 1
    /\ prev' = result
    /\ UNCHANGED <<output, data, crc, serial, packet>>

co2 ==
    /\ pc = "idle"
    /\ calls < MaxCalls
    /\ op' = "co2"
    /\ arg' = Arg("none", -1, <<>>)
    /\ command(ReadConcentration, <<0, 0, 0, 0, 0>>)

auto_calibration ==
    /\ pc = "idle"
    /\ calls < MaxCalls
    /\ \E state \in AutoCalibrationState :
         /\ op' = "auto_calibration"
         /\ arg' = Arg(state, -1, <<>>)
         /\ command(AutoCalibration, <<StateByte(state), 0, 0, 0, 0>>)

range ==
    /\ pc = "idle"
    /\ calls < MaxCalls
    /\ \E r \in Range :
         /\ op' = "range"
         /\ arg' = Arg(r, -1, <<>>)
         /\ command(SetRange, RangeData(r))

\* The private command(cmd, data) called on its own, as tests::command_test
\* does on a driver it has just constructed
SamplePayloads == {<<0, 0, 0, 0, 0>>, <<7, 208, 0, 0, 0>>,
                   <<255, 255, 255, 255, 255>>}

command_direct ==
    /\ pc = "idle"
    /\ calls = 0
    /\ \E cmd \in Commands, payload \in SamplePayloads :
         /\ op' = "command"
         /\ arg' = Arg("raw", cmd, payload)
         /\ command(cmd, payload)

(***************************************************************************)
(* command's write loop: nb::block!(self.serial.write(b)) per byte         *)
(***************************************************************************)
\* The transport accepts the byte. After the last byte command returns Ok:
\* co2 goes on to response(), the other operations return that Ok.
WriteOk ==
    /\ pc = "command"
    /\ tx' = Append(tx, buffer[index + 1])
    /\ IF index + 1 < BUFFER_SIZE
       THEN /\ index' = index + 1
            /\ UNCHANGED <<pc, result, output>>
       ELSE /\ index' = 0
            /\ \E reply \in RepliesOf(serial) : output' = output \o reply
            /\ IF ReadsResponse(op)
               THEN pc' = "response" /\ UNCHANGED result
               ELSE pc' = "idle" /\ result' = "Ok"
    /\ UNCHANGED <<buffer, op, arg, value, rx, reads, writeErrAt, readErrAt,
                   checks, blocks, calls, data, crc, serial, packet, prev>>

\* Faulty variant: the WouldBlock result makes the loop skip the byte
WriteWouldBlock_SkipsByte ==
    /\ pc = "command"
    /\ index + 1 < BUFFER_SIZE
    /\ blocks' = Min(blocks + 1, MaxBlock)
    /\ index' = index + 1
    /\ UNCHANGED <<buffer, output, pc, op, arg, result, value, tx, rx, reads,
                   writeErrAt, readErrAt, checks, calls, data, crc, serial,
                   packet, prev>>

\* The transport reports WouldBlock: nb::block! calls write again.
WriteWouldBlock ==
    /\ pc = "command"
    /\ blocks' = Min(blocks + 1, MaxBlock)
    /\ UNCHANGED <<buffer, output, pc, op, arg, index, result, value, tx, rx,
                   reads, writeErrAt, readErrAt, checks, calls, data, crc, serial, packet, prev>>

\* Faulty variant: co2 drops command()'s error and goes on to response()
WriteErr_ThenResponse ==
    /\ pc = "command"
    /\ writeErrAt' = index
    /\ IF ReadsResponse(op)
       THEN pc' = "response" /\ index' = 0 /\ UNCHANGED result
       ELSE pc' = "idle" /\ result' = "Write" /\ UNCHANGED index
    /\ UNCHANGED <<buffer, output, op, arg, value, tx, rx, reads, readErrAt,
                   checks, blocks, calls, data, crc, serial, packet, prev>>

\* Faulty variant: the error is swallowed and the loop goes on to the next byte
WriteErr_Swallowed ==
    /\ pc = "command"
    /\ index + 1 < BUFFER_SIZE
    /\ writeErrAt' = index
    /\ index' = index + 1
    /\ UNCHANGED <<buffer, output, pc, op, arg, result, value, tx, rx, reads,
                   readErrAt, checks, blocks, calls, data, crc, serial, packet, prev>>

\* The transport reports an error: Err(_) => return Err(Errors::Write)
WriteErr ==
    /\ pc = "command"
    /\ writeErrAt' = index
    /\ result' = "Write"
    /\ pc' = "idle"
    /\ UNCHANGED <<buffer, output, op, arg, index, value, tx, rx, reads,
                   readErrAt, checks, blocks, calls, data, crc, serial, packet, prev>>

(***************************************************************************)
(* response's read loop: nb::block!(self.serial.read()) per byte, then     *)
(* the checksum comparison; co2 decodes the value on Ok.                   *)
(***************************************************************************)
ReadOk ==
    /\ pc = "response"
    /\ output # <<>>
    /\ LET at == NextByteAt(serial, output)
           byte == output[at]
           buf == [buffer EXCEPT ![index + 1] = byte]
       IN  /\ output' = SubSeq(output, 1, at - 1)
                        \o SubSeq(output, at + 1, Len(output))
           /\ buffer' = buf
           /\ rx' = Append(rx, byte)
           /\ reads' = reads + 1
           /\ IF index + 1 < BUFFER_SIZE
              THEN /\ index' = index + 1
                   /\ UNCHANGED <<pc, result, value, checks>>
              ELSE /\ index' = 0
                   /\ pc' = "idle"
                   /\ checks' = checks + 1
                   /\ result' = ResponseVerdict(buf)
                   /\ value' = IF ResponseVerdict(buf) = "Ok" /\ op = "co2"
                               THEN Co2Value(buf) ELSE -1
    /\ UNCHANGED <<op, arg, tx, writeErrAt, readErrAt, blocks, calls, data,
                   crc, serial, packet, prev>>

\* Faulty variant: WouldBlock is taken for an error and ends the call
ReadWouldBlock_TimesOut ==
    /\ pc = "response"
    /\ blocks' = Min(blocks + 1, MaxBlock)
    /\ reads' = Min(reads + 1, BUFFER_SIZE + MaxBlock)
    /\ result' = "Read"
    /\ pc' = "idle"
    /\ UNCHANGED <<buffer, output, op, arg, index, value, tx, rx, writeErrAt,
                   readErrAt, checks, calls, data, crc, serial, packet, prev>>

\* No byte has arrived yet: nb::block! calls read again.
ReadWouldBlock ==
    /\ pc = "response"
    /\ blocks' = Min(blocks + 1, MaxBlock)
    /\ reads' = Min(reads + 1, BUFFER_SIZE + MaxBlock)
    /\ UNCHANGED <<buffer, output, pc, op, arg, index, result, value, tx, rx,
                   writeErrAt, readErrAt, checks, calls, data, crc, serial, packet, prev>>

\* Faulty variant: the error is retried like a WouldBlock
ReadErr_Retried ==
    /\ pc = "response"
    /\ reads' = Min(reads + 1, BUFFER_SIZE + MaxBlock)
    /\ UNCHANGED <<buffer, output, pc, op, arg, index, result, value, tx, rx,
                   writeErrAt, readErrAt, checks, blocks, calls, data, crc,
                   serial, packet, prev>>

\* The transport reports an error: Err(_) => return Err(Errors::Read)
ReadErr ==
    /\ pc = "response"
    /\ reads' = Min(reads + 1, BUFFER_SIZE + MaxBlock)
    /\ readErrAt' = index
    /\ result' = "Read"
    /\ pc' = "idle"
    /\ UNCHANGED <<buffer, output, op, arg, index, value, tx, rx, writeErrAt,
                   checks, blocks, calls, data, crc, serial, packet, prev>>

Next ==
    \/ co2
    \/ auto_calibration
    \/ range
    \/ command_direct
    \/ WriteOk
    \/ WriteWouldBlock
    \/ WriteErr
    \/ ReadOk
    \/ ReadWouldBlock
    \/ ReadErr

Spec == Init /\ [][Next]_vars

(***************************************************************************)
(* A transport whose reads never fail: a read yields a queued byte or      *)
(* WouldBlock.                                                             *)
(***************************************************************************)
NoReadErrNext ==
    \/ co2
    \/ auto_calibration
    \/ range
    \/ WriteOk
    \/ WriteWouldBlock
    \/ WriteErr
    \/ ReadOk
    \/ ReadWouldBlock

NoReadErrSpec == Init /\ [][NoReadErrNext]_vars

(***************************************************************************)
(* An error-free line to a sensor that answers every frame it receives     *)
(* with exactly one checksum-valid 9-byte reply.                           *)
(***************************************************************************)
SensorInit ==
    /\ DriverInit
    /\ data = <<>>
    /\ crc = -1
    /\ serial = "sensor"
    /\ packet = <<>>
    /\ output = <<>>

SensorNext ==
    \/ co2
    \/ auto_calibration
    \/ range
    \/ WriteOk
    \/ WriteWouldBlock
    \/ ReadOk
    \/ ReadWouldBlock

SensorSpec == SensorInit /\ [][SensorNext]_vars

(***************************************************************************)
(* A transport on which no write and no read reports WouldBlock for ever:  *)
(* each eventually succeeds or fails.                                      *)
(***************************************************************************)
FairInit ==
    /\ DriverInit
    /\ data = <<>>
    /\ crc = -1
    /\ serial = "line"
    /\ packet = <<>>
    /\ output = <<>>

FairSpec ==
    /\ FairInit
    /\ [][Next]_vars
    /\ WF_vars(WriteOk \/ WriteErr)
    /\ WF_vars(ReadOk \/ ReadErr)

(***************************************************************************)
(* checksum() called on its own over a slice, as tests::test_checksum does *)
(***************************************************************************)
SampleBytes == {0, 1, 128, 255}

DatasheetVectors ==
    { <<255, 1, 134, 0, 0, 0, 0, 0>>,
      <<255, 1, 135, 0, 0, 0, 0, 0>>,
      <<255, 1, 136, 7, 208, 0, 0, 0>> }

ChecksumInputs ==
    UNION { [1..n -> SampleBytes] : n \in 0..MaxLen } \cup DatasheetVectors

ChecksumInit ==
    /\ DriverInit
    /\ data \in ChecksumInputs
    /\ crc = -1
    /\ serial = "wire"
    /\ packet = <<>>
    /\ output = <<>>

test_checksum ==
    /\ crc = -1
    /\ crc' = checksum(data)
    /\ checks' = checks + 1
    /\ UNCHANGED <<buffer, output, pc, op, arg, index, result, value, tx, rx,
                   reads, writeErrAt, readErrAt, blocks, calls, data, serial,
                   packet, prev>>

ChecksumNext == test_checksum

ChecksumSpec == ChecksumInit /\ [][ChecksumNext]_vars

(***************************************************************************)
(* response() called on its own on a transport whose output a test filled  *)
(* beforehand, as tests::response_test does; co2() on such a transport.    *)
(***************************************************************************)
Reverse(seq) == [i \in 1..Len(seq) |-> seq[Len(seq) + 1 - i]]

\* Bit j (0 = least significant) of a byte inverted
FlipBit(byte, j) ==
    IF (byte \div (2 ^ j)) % 2 = 1 THEN byte - 2 ^ j ELSE byte + 2 ^ j

\* Bit k (0..71) of a 9-byte frame inverted
FlipFrameBit(frame, k) ==
    [frame EXCEPT ![(k \div 8) + 1] = FlipBit(frame[(k \div 8) + 1], k % 8)]

FrameBits == 0..(8 * BUFFER_SIZE - 1)

\* Frames as command() builds them
EncodedFrames ==
    { CommandFrame(cmd, payload) : cmd \in Commands, payload \in SamplePayloads }
    \cup { CommandFrame(AutoCalibration, <<StateByte(st), 0, 0, 0, 0>>) :
             st \in AutoCalibrationState }
    \cup { CommandFrame(SetRange, RangeData(r)) : r \in Range }

\* Checksum-valid frames whose first three bytes are not those of a reply
ForeignBodies ==
    { <<b0, b1, b2, 4, 176, 0, 0, 0>> :
        b0 \in {255, 0, 126}, b1 \in {1, 2}, b2 \in {4, 134, 153} }

ForeignFrames == { Append(b, checksum(b)) : b \in ForeignBodies }

\* The packet of tests::response_test
ResponseTestPacket ==
    LET body == <<255, 1, 4, 128, 176, 0, 0, 0>>
    IN  Append(body, checksum(body))

GoodFrames ==
    EncodedFrames \cup ValidReplies \cup ForeignFrames \cup {ResponseTestPacket}

UnitPackets ==
    GoodFrames
    \cup ReplyFrames
    \cup { FlipFrameBit(f, k) : f \in GoodFrames, k \in FrameBits }
    \cup { Reverse(f) : f \in GoodFrames }
    \cup { SubSeq(f, 1, ShortReply) : f \in ValidReplies }

UnitInit ==
    /\ DriverInit
    /\ data = <<>>
    /\ crc = -1
    /\ serial \in {"fifo", "lifo"}
    /\ packet \in UnitPackets
    /\ output = packet

\* Each test makes its one call on a driver it has just constructed
response_direct ==
    /\ pc = "idle"
    /\ calls = 0
    /\ op' = "response"
    /\ arg' = Arg("none", -1, <<>>)
    /\ pc' = "response"
    /\ index' = 0
    /\ result' = "None"
    /\ value' = -1
    /\ tx' = <<>>
    /\ rx' = <<>>
    /\ reads' = 0
    /\ writeErrAt' = -1
    /\ readErrAt' = -1
    /\ checks' = 0
    /\ blocks' = 0
    /\ calls' = calls + 1
    /\ prev' = result
    /\ UNCHANGED <<buffer, output, data, crc, serial, packet>>

co2_test ==
    /\ calls = 0
    /\ co2

UnitNext ==
    \/ response_direct
    \/ co2_test
    \/ WriteOk
    \/ WriteWouldBlock
    \/ WriteErr
    \/ ReadOk
    \/ ReadWouldBlock
    \/ ReadErr

UnitSpec == UnitInit /\ [][UnitNext]_vars

(***************************************************************************)
(* Definitions used to state the properties                                *)
(***************************************************************************)
\* The integer sum of a byte sequence, without wraparound
RECURSIVE SeqSum(_)
SeqSum(seq) == IF seq = <<>> THEN 0 ELSE Head(seq) + SeqSum(Tail(seq))

IsPrefix(p, q) == Len(p) <= Len(q) /\ p = SubSeq(q, 1, Len(p))

Returned == pc = "idle" /\ result # "None"

\* The 9 received bytes form a frame whose last byte is the checksum of the rest
RxChecksumValid ==
    /\ Len(rx) = BUFFER_SIZE
    /\ checksum(SubSeq(rx, 1, BUFFER_SIZE - 1)) = rx[BUFFER_SIZE]

Co2Request == <<255, 1, 134, 0, 0, 0, 0, 0, 121>>
DummySerialReply == <<255, 1, 4, 176, 0, 0, 0, 0, 75>>
ScenarioDReply == <<255, 1, 4, 4, 176, 0, 0, 0, 71>>

\* C1: auto_calibration(state) and range(r) return Ok only after a full
\* 9-byte response has been read from the transport and its checksum has
\* been validated.
C1_OkOnlyAfterValidatedResponse ==
    (Returned /\ op \in {"auto_calibration", "range"} /\ result = "Ok")
        => (RxChecksumValid /\ checks = 2)

\* C2: whenever co2() returns Ok(v), v = 256 * r[2] + r[3] for the 9-byte
\* frame r read during that call; the reply [FF,01,04,B0,0,0,0,0,cs] to the
\* 0x86 request gives 1200.
C2_Co2DecodesBytes2And3 ==
    (Returned /\ op = "co2" /\ result = "Ok")
        => /\ Len(rx) = BUFFER_SIZE
           /\ value = 256 * rx[3] + rx[4]
           /\ (rx = DummySerialReply => value = 1200)

C2_Witness ==
    /\ Returned /\ op = "co2" /\ result = "Ok"
    /\ tx = Co2Request
    /\ rx = DummySerialReply
    /\ value = 1200

\* C3 as stated: the checksum-valid response [FF,01,04,04,B0,0,0,0,cs] makes
\* co2() return 1200.
C3_ScenarioDIs1200 ==
    (Returned /\ op = "co2" /\ rx = ScenarioDReply)
        => (result = "Ok" /\ value = 1200)

\* C3 amended: the checksum-valid response [FF,01,04,04,B0,0,0,0,cs] makes
\* co2() return 1028 = 0x0404, built from frame bytes 2 and 3.
C3_ScenarioDIs1028 ==
    (Returned /\ op = "co2" /\ rx = ScenarioDReply)
        => (result = "Ok" /\ value = 1028)

C3_Witness ==
    /\ Returned /\ op = "co2" /\ rx = ScenarioDReply
    /\ checksum(SubSeq(rx, 1, 8)) = rx[9]
    /\ value = 1028

\* The opcode and payload of the call in progress
CallOpcode ==
    CASE op = "co2" -> 134
      [] op = "auto_calibration" -> 121
      [] op = "range" -> 153
      [] op = "command" -> arg.cmd
      [] OTHER -> 0

CallPayload ==
    CASE op = "co2" -> <<0, 0, 0, 0, 0>>
      [] op = "auto_calibration" ->
            IF arg.name = "Enable" THEN <<160, 0, 0, 0, 0>> ELSE <<0, 0, 0, 0, 0>>
      [] op = "range" ->
            <<0, 0, 0>> \o
            (CASE arg.name = "_1000"  -> <<3, 232>>
               [] arg.name = "_2000"  -> <<7, 208>>
               [] arg.name = "_3000"  -> <<11, 184>>
               [] arg.name = "_5000"  -> <<19, 136>>
               [] arg.name = "_10000" -> <<39, 16>>)
      [] op = "command" -> arg.data
      [] OTHER -> <<0, 0, 0, 0, 0>>

\* The frame the call has to put on the wire, checksum by the integer sum
ExpectedFrame ==
    LET body == <<255, 1, CallOpcode>> \o CallPayload
    IN  Append(body, 255 - (SeqSum(body) % 256))

\* C4: when all writes succeed, command(opcode, payload) writes exactly the
\* 9 bytes 0xFF, 0x01, opcode, payload[0..4], checksum in this order (and at
\* every moment a prefix of them); co2() sends [FF,01,86,0,0,0,0,0,79].
C4_CommandWritesFrame ==
    /\ op # "none" => IsPrefix(tx, ExpectedFrame)
    /\ (op # "none" /\ writeErrAt = -1 /\ (pc = "response" \/ Returned))
          => tx = ExpectedFrame
    /\ (op = "co2" /\ Len(tx) = BUFFER_SIZE) => tx = Co2Request

C4_Witness ==
    /\ op = "command" /\ arg = Arg("raw", 136, <<7, 208, 0, 0, 0>>)
    /\ Returned /\ result = "Ok"
    /\ tx = <<255, 1, 136, 7, 208, 0, 0, 0, 160>>

\* C5 as stated: for every byte sequence of length 8, checksum(seq) is the
\* unique byte c with sum(seq) + c = 0 (mod 256).
C5_SumPlusChecksumIsZero ==
    (crc # -1 /\ Len(data) = 8)
        => /\ crc \in 0..255
           /\ \A c \in 0..255 : ((SeqSum(data) + c) % 256 = 0) <=> (c = crc)

\* C5 amended: for every byte sequence of length 8, checksum(seq) is the
\* unique byte c with sum(seq) + c = 255 (mod 256), that is
\* 255 - (sum of the bytes mod 256).
C5_SumPlusChecksumIs255 ==
    (crc # -1 /\ Len(data) = 8)
        => /\ crc \in 0..255
           /\ \A c \in 0..255 : ((SeqSum(data) + c) % 256 = 255) <=> (c = crc)

C5_Witness ==
    /\ crc # -1 /\ Len(data) = 8
    /\ SeqSum(data) > 255
    /\ (SeqSum(data) + crc) % 256 = 255

\* C6: for every byte sequence checksum returns 255 - (sum of the bytes mod
\* 256), a byte, whatever the sum overflows to; the datasheet vectors give
\* 0x79, 0x78 and 0xA0.
C6_ChecksumIs255MinusSum ==
    crc # -1
        => /\ crc \in 0..255
           /\ crc = 255 - (SeqSum(data) % 256)
           /\ (data = <<255, 1, 134, 0, 0, 0, 0, 0>> => crc = 121)
           /\ (data = <<255, 1, 135, 0, 0, 0, 0, 0>> => crc = 120)
           /\ (data = <<255, 1, 136, 7, 208, 0, 0, 0>> => crc = 160)

C6_Witness ==
    /\ data = <<255, 1, 136, 7, 208, 0, 0, 0>>
    /\ SeqSum(data) > 255
    /\ crc = 160

\* The ppm value a Range stands for
Ppm(r) ==
    CASE r = "_1000"  -> 1000
      [] r = "_2000"  -> 2000
      [] r = "_3000"  -> 3000
      [] r = "_5000"  -> 5000
      [] r = "_10000" -> 10000

\* The last byte of a 9-byte frame is 255 - (integer sum of the first 8 mod 256)
TrailingChecksumCorrect(frame) ==
    frame[9] = 255 - (SeqSum(SubSeq(frame, 1, 8)) % 256)

\* C7: range(r) transmits [0xFF,0x01,0x99,0,0,0,hi,lo,checksum] with
\* hi * 256 + lo the ppm value of r; for 2000 ppm the payload is
\* [0,0,0,0x07,0xD0].
C7_RangeFrame ==
    (op = "range" /\ Len(tx) = BUFFER_SIZE)
        => /\ SubSeq(tx, 1, 6) = <<255, 1, 153, 0, 0, 0>>
           /\ tx[7] * 256 + tx[8] = Ppm(arg.name)
           /\ tx[7] \in 0..255 /\ tx[8] \in 0..255
           /\ TrailingChecksumCorrect(tx)
           /\ (arg.name = "_2000" => SubSeq(tx, 4, 8) = <<0, 0, 0, 7, 208>>)

C7_Witness ==
    /\ op = "range" /\ arg.name = "_10000" /\ Returned /\ result = "Ok"
    /\ tx = <<255, 1, 153, 0, 0, 0, 39, 16, 47>>

\* C8: auto_calibration(Enable) transmits opcode 0x79 with payload
\* [0xA0,0,0,0,0] and auto_calibration(Disable) opcode 0x79 with payload
\* [0,0,0,0,0], each after 0xFF,0x01 and before a correct checksum.
C8_AutoCalibrationFrame ==
    (op = "auto_calibration" /\ Len(tx) = BUFFER_SIZE)
        => /\ SubSeq(tx, 1, 3) = <<255, 1, 121>>
           /\ (arg.name = "Enable" => SubSeq(tx, 4, 8) = <<160, 0, 0, 0, 0>>)
           /\ (arg.name = "Disable" => SubSeq(tx, 4, 8) = <<0, 0, 0, 0, 0>>)
           /\ TrailingChecksumCorrect(tx)

C8_Witness ==
    /\ op = "auto_calibration" /\ arg.name = "Enable" /\ Returned /\ result = "Ok"
    /\ tx = <<255, 1, 121, 160, 0, 0, 0, 0, 230>>

\* C9: if the write of frame byte i fails, the call returns the Write error
\* at once: exactly i bytes (the first i of the frame) were accepted, no
\* further byte is written, nothing is resent and no read is issued.
C9_WriteErrorAborts ==
    /\ writeErrAt # -1
          => /\ writeErrAt \in 0..(BUFFER_SIZE - 1)
             /\ Returned /\ result = "Write"
             /\ Len(tx) = writeErrAt
             /\ tx = SubSeq(ExpectedFrame, 1, writeErrAt)
             /\ reads = 0 /\ rx = <<>>
             /\ value = -1
    /\ result = "Write" => writeErrAt # -1

C9_Witness ==
    /\ op = "co2" /\ result = "Write" /\ writeErrAt = 5
    /\ tx = <<255, 1, 134, 0, 0>>
    /\ reads = 0

\* C10: the response phase returns Read iff one of the 9 reads failed (no
\* further read, no checksum evaluated), Checksum iff all 9 bytes were read
\* and checksum(bytes 0..7) differs from byte 8, Ok iff all 9 were read and
\* it matches; co2() yields a value only in the Ok case.
C10_ResponseClassification ==
    /\ (Returned /\ op = "co2" /\ writeErrAt = -1)
          => /\ (result = "Read") <=> (readErrAt # -1)
             /\ (result = "Read")
                   => /\ Len(rx) = readErrAt /\ readErrAt < BUFFER_SIZE
                      /\ checks = 1
             /\ (result = "Checksum")
                   <=> /\ Len(rx) = BUFFER_SIZE
                       /\ readErrAt = -1
                       /\ checksum(SubSeq(rx, 1, 8)) # rx[9]
             /\ (result = "Ok")
                   <=> /\ Len(rx) = BUFFER_SIZE
                       /\ readErrAt = -1
                       /\ checksum(SubSeq(rx, 1, 8)) = rx[9]
             /\ result \in {"Ok", "Read", "Checksum"}
    /\ readErrAt # -1 => Returned
    /\ value # -1 => (op = "co2" /\ result = "Ok")
    /\ (Returned /\ op = "co2" /\ result = "Ok") => value \in 0..65535

C10_Witness ==
    /\ Returned /\ op = "co2" /\ result = "Checksum"
    /\ Len(rx) = BUFFER_SIZE
    /\ checksum(SubSeq(rx, 1, 8)) # rx[9]
    /\ value = -1

\* A 9-byte frame whose last byte is 255 - (integer sum of the first 8 mod 256)
FrameValid(frame) ==
    /\ Len(frame) = BUFFER_SIZE
    /\ TrailingChecksumCorrect(frame)

\* A call that went through response() and got all 9 bytes
ReadWholeFrame ==
    /\ Returned
    /\ op \in {"response", "co2"}
    /\ Len(rx) = BUFFER_SIZE

\* C11: the 9-byte frame command() builds for an opcode and payload, fed back
\* unmodified (in order) to response(), passes the checksum validation and
\* leaves the buffer equal to that frame.
C11_RoundTrip ==
    (Returned /\ op \in {"response", "co2"} /\ serial = "fifo"
       /\ packet \in EncodedFrames /\ writeErrAt = -1 /\ readErrAt = -1)
        => /\ result = "Ok"
           /\ rx = packet
           /\ buffer = packet

C11_Witness ==
    /\ Returned /\ op = "response" /\ serial = "fifo"
    /\ packet = <<255, 1, 136, 7, 208, 0, 0, 0, 160>>
    /\ packet \in EncodedFrames
    /\ result = "Ok"
    /\ buffer = packet

\* C12: a checksum-valid 9-byte frame with any single one of its 72 bits
\* inverted is rejected by response() with the Checksum error.
C12_SingleBitFlipRejected ==
    (ReadWholeFrame /\ \E k \in FrameBits : FrameValid(FlipFrameBit(rx, k)))
        => result = "Checksum"

C12_Witness ==
    /\ ReadWholeFrame
    /\ rx = FlipFrameBit(DummySerialReply, 71)
    /\ FrameValid(DummySerialReply)
    /\ result = "Checksum"

\* C17: a 9-byte response whose checksum byte matches is accepted whatever
\* its bytes 0, 1 and 2 are, and co2() decodes it without error.
C17_OnlyChecksumValidated ==
    (ReadWholeFrame /\ FrameValid(rx))
        => /\ result = "Ok"
           /\ op = "co2" => value = 256 * rx[3] + rx[4]

C17_Witness ==
    /\ ReadWholeFrame /\ op = "co2" /\ tx = Co2Request
    /\ rx[1] = 0 /\ rx[2] = 2 /\ rx[3] = 153
    /\ FrameValid(rx)
    /\ result = "Ok"
    /\ value = 153 * 256 + 4

\* C20: response() accepts 9 bytes iff their sum is 255 mod 256, so in any
\* order; mod tests' transport hands a pushed frame over last byte first,
\* and a checksum-valid frame delivered that way is accepted.
C20_AcceptIffSumIs255 ==
    ReadWholeFrame
        => /\ (result = "Ok") <=> (SeqSum(rx) % 256 = 255)
           /\ result \in {"Ok", "Checksum"}
           /\ (serial = "lifo" /\ Len(packet) = BUFFER_SIZE)
                 => /\ rx = Reverse(packet)
                    /\ FrameValid(packet) => result = "Ok"

C20_Witness ==
    /\ ReadWholeFrame /\ op = "response" /\ serial = "lifo"
    /\ packet = ResponseTestPacket
    /\ rx = <<packet[9], 0, 0, 0, 176, 128, 4, 1, 255>>
    /\ rx # packet
    /\ result = "Ok"

\* What a returned call's result has to be, from the transport's results
\* during that call alone
OutcomeOf ==
    IF writeErrAt # -1 THEN "Write"
    ELSE IF op \notin {"co2", "response"} THEN "Ok"
    ELSE IF readErrAt # -1 THEN "Read"
    ELSE IF FrameValid(rx) THEN "Ok"
    ELSE "Checksum"

ValueOf ==
    IF op = "co2" /\ OutcomeOf = "Ok" THEN 256 * rx[3] + rx[4] ELSE -1

PublicOps == {"co2", "auto_calibration", "range"}

AfterError == prev \in {"Write", "Read", "Checksum"}

\* C13: after a call that ended in Write, Read or Checksum, the next public
\* call overwrites the whole buffer with its own frame, transmits that frame
\* (all of it when no write fails), and its result follows from its arguments
\* and the transport's results during the call alone.
C13_UsableAfterError ==
    (AfterError /\ op \in PublicOps)
        => /\ pc = "command" => buffer = ExpectedFrame
           /\ IsPrefix(tx, ExpectedFrame)
           /\ (writeErrAt = -1 /\ pc # "command") => tx = ExpectedFrame
           /\ pc = "response" => SubSeq(buffer, 1, Len(rx)) = rx
           /\ Returned => (result = OutcomeOf /\ value = ValueOf)

C13_Witness ==
    /\ prev = "Checksum" /\ op = "co2" /\ Returned
    /\ tx = Co2Request
    /\ rx = DummySerialReply
    /\ result = "Ok" /\ value = 1200

\* C16: within one co2() call all 9 request bytes are written before the
\* first read; at most 9 bytes are written, then at most 9 read, no write
\* follows a read (a read finds all 9 bytes written already), and no read is
\* issued if a write failed.
C16_WritesThenReads ==
    op = "co2"
        => /\ Len(tx) <= BUFFER_SIZE /\ Len(rx) <= BUFFER_SIZE
           /\ pc = "command" => (reads = 0 /\ rx = <<>>)
           /\ (reads > 0 \/ rx # <<>> \/ pc = "response")
                 => (Len(tx) = BUFFER_SIZE /\ writeErrAt = -1)
           /\ writeErrAt # -1 => (reads = 0 /\ rx = <<>>)

C16_Witness ==
    /\ op = "co2" /\ Returned
    /\ Len(tx) = BUFFER_SIZE /\ Len(rx) = BUFFER_SIZE
    /\ reads >= BUFFER_SIZE

\* The driver's state and its traffic, without the WouldBlock counters
Exchange ==
    <<buffer, output, pc, op, arg, index, result, value, tx, rx, writeErrAt,
      readErrAt, checks>>

\* C18: a WouldBlock result is never surfaced as an error and neither loses
\* nor duplicates a byte: it changes nothing of the exchange, the bytes
\* accepted are the frame's in order, each byte read is stored at the next
\* index, and the outcome is that of the exchange without WouldBlock results.
C18_WouldBlockInvisible ==
    /\ [][(blocks' # blocks /\ calls' = calls) => UNCHANGED Exchange]_vars
    /\ [](op \in PublicOps
            => /\ pc = "command" => (index = Len(tx) /\ IsPrefix(tx, buffer))
               /\ pc = "response"
                     => (index = Len(rx) /\ SubSeq(buffer, 1, Len(rx)) = rx)
               /\ Returned => (result = OutcomeOf /\ value = ValueOf))

C18_Witness ==
    /\ op = "co2" /\ Returned
    /\ blocks = MaxBlock /\ reads > BUFFER_SIZE
    /\ tx = Co2Request
    /\ rx = DummySerialReply
    /\ result = "Ok" /\ value = 1200

\* C14: if the transport accepted the request and holds fewer than 9 response
\* bytes in all, and afterwards only reports WouldBlock (never an error),
\* co2() does not return: it stays in the response phase, with no timeout,
\* no partial result and no error.
C14_StarvedReadBlocks ==
    [][(op = "co2" /\ pc = "response" /\ Len(rx) + Len(output) < BUFFER_SIZE)
         => (pc' = "response" /\ result' = "None" /\ value' = -1
             /\ calls' = calls)]_vars

C14_Witness ==
    /\ op = "co2" /\ pc = "response"
    /\ Len(rx) \in 1..(BUFFER_SIZE - 1)
    /\ output = <<>>
    /\ blocks = MaxBlock /\ reads > Len(rx)
    /\ result = "None" /\ value = -1

\* The reply to the request of the call in progress: the last 9 bytes queued
OwnReply ==
    LET all == rx \o output
    IN  SubSeq(all, Len(all) - BUFFER_SIZE + 1, Len(all))

\* C15: against a sensor that answers every command frame with exactly one
\* checksum-valid reply, every public call leaves no reply byte unread when
\* it returns, and a successful co2() returns the concentration of the reply
\* to its own request.
C15_NoReplyLeftUnread ==
    (Returned /\ op \in PublicOps)
        => /\ output = <<>>
           /\ (op = "co2" /\ result = "Ok")
                 => value = 256 * OwnReply[3] + OwnReply[4]

\* C19: if no write and no read reports WouldBlock for ever, every call
\* returns, with one of Ok, Write, Read and Checksum, after at most 9
\* accepted writes and at most 9 delivered reads.
C19_CallsReturn ==
    /\ (pc # "idle") ~> Returned
    /\ [](/\ Len(tx) <= BUFFER_SIZE /\ Len(rx) <= BUFFER_SIZE
          /\ Returned => result \in {"Ok", "Write", "Read", "Checksum"}
          /\ pc # "idle" => result = "None")

C19_Witness ==
    /\ op = "co2" /\ Returned /\ result = "Checksum"
    /\ blocks = MaxBlock
    /\ Len(tx) = BUFFER_SIZE /\ Len(rx) = BUFFER_SIZE

====
